---------------------------- MODULE Spec2Model ----------------------------
(***************************************************************************)
(* Staff-line detection (linesegmentation/detection/lineDetection.py).     *)
(*                                                                         *)
(* Two state machines are modelled:                                        *)
(*   Spec       - detect_basic preparing one ImageData per page and        *)
(*                detect_staff_lines running its pipeline on it, one       *)
(*                action per pipeline stage;                               *)
(*   SpecDetect - detect / detect_basic / detect_advanced over a batch of  *)
(*                images, with the worker pool of detect_advanced and the  *)
(*                generator of PCPredictor.predict.                        *)
(*                                                                         *)
(* Abstraction of the data.  An image is the sequence of its horizontal    *)
(* ink runs, each a record [row, c0, c1, h, dark]: top row, first and last *)
(* column, vertical thickness, and whether the binarizer keeps it.  A      *)
(* point is <<row, column>> (Python [y, x]: p[0] is p[1] here, p[1] is     *)
(* p[2]); a line is a sequence of points; a system a sequence of lines.    *)
(***************************************************************************)
EXTENDS Integers, Sequences, FiniteSets, TLC

(***************************************************************************)
(* Bounds of the model.                                                    *)
(***************************************************************************)
MaxNumLine == 3
MaxSmooth == 3
MaxFitDistance == 1
NumImages == 3
NumProcesses == 2

(***************************************************************************)
(* Generic helpers.                                                        *)
(***************************************************************************)
Abs(x) == IF x < 0 THEN -x ELSE x

Range(s) == {s[i] : i \in DOMAIN s}

RECURSIVE Count(_, _)
Count(s, v) ==
    IF s = <<>> THEN 0
    ELSE (IF Head(s) = v THEN 1 ELSE 0) + Count(Tail(s), v)

\* Statistical mode of a sequence of naturals; 0 for an empty sequence.
Mode(s) ==
    IF s = <<>> THEN 0
    ELSE CHOOSE v \in Range(s) :
           \A w \in Range(s) :
              \/ Count(s, v) > Count(s, w)
              \/ Count(s, v) = Count(s, w) /\ v <= w

(***************************************************************************)
(* Points and lines.                                                       *)
(***************************************************************************)
Row(p) == p[1]
Col(p) == p[2]
FirstPoint(l) == l[1]
LastPoint(l) == l[Len(l)]
\* l[-1][1] - l[0][1]
Span(l) == Col(LastPoint(l)) - Col(FirstPoint(l))

(***************************************************************************)
(* The pages the model draws its images from.                              *)
(***************************************************************************)
Ink(r, a, b) == [row |-> r, c0 |-> a, c1 |-> b, h |-> 2, dark |-> TRUE]
Faint(r, a, b) == [row |-> r, c0 |-> a, c1 |-> b, h |-> 2, dark |-> FALSE]
Blob(r, a, b) == [row |-> r, c0 |-> a, c1 |-> b, h |-> 9, dark |-> TRUE]

PageBlank == <<>>
PageShort == <<Ink(10, 0, 30)>>
PageFifty == <<Ink(10, 0, 50)>>
PageFiftyOne == <<Ink(10, 0, 51), Faint(30, 0, 200)>>
PageTwo == <<Ink(10, 0, 200), Ink(30, 20, 180), Ink(50, 90, 110),
             Ink(50, 111, 150)>>
PageBroken == <<Ink(10, 0, 90), Ink(11, 100, 200), Ink(30, 0, 200),
                Ink(50, 40, 200), Ink(50, 0, 20), Ink(50, 28, 36),
                Blob(70, 0, 200)>>
PageFar == <<Ink(10, 0, 200), Ink(30, 0, 200), Ink(90, 0, 200),
             Ink(110, 60, 60)>>
PageNoise == <<Faint(10, 0, 200), Blob(30, 0, 200), Ink(50, 0, 5)>>
PageClipped == <<Ink(10, 40, 200), Ink(10, 28, 36), Ink(30, 40, 200)>>

Pages == {PageBlank, PageShort, PageFifty, PageFiftyOne, PageTwo,
          PageBroken, PageFar, PageNoise, PageClipped}


(***************************************************************************)
(* Settings.  LineDetectionSettings is declared outside the two source     *)
(* files; its fields are the ones lineDetection.py reads.  The smoothing   *)
(* strengths are opaque tokens: the pipeline only passes them on.  numLine  *)
(* is at least 1 (1 disables the grouping into systems).                   *)
(***************************************************************************)
SettingsSet ==
    [numLine : 1..MaxNumLine,
     lineExtension : BOOLEAN,
     post_process : BOOLEAN,
     smooth_lines : 0..MaxSmooth,
     smooth_value_lowpass : {"lowpass"},
     smooth_value_adv : {"adv"},
     line_fit_distance : 0..MaxFitDistance,
     minLength : {15},
     lineSpaceHeight : {20},
     model : {FALSE},
     processes : {1}]

\* The settings of the batch runs: the stages of detect_staff_lines are
\* not stepped through there, the path and the size of the pool vary.
BatchSettingsSet ==
    [numLine : {1},
     lineExtension : {FALSE},
     post_process : {FALSE},
     smooth_lines : {0},
     smooth_value_lowpass : {"lowpass"},
     smooth_value_adv : {"adv"},
     line_fit_distance : {0},
     minLength : {15},
     lineSpaceHeight : {20},
     model : BOOLEAN,
     processes : 1..NumProcesses]

(***************************************************************************)
(* detect_basic, lines 86-97: the collaborators that fill in ImageData.    *)
(***************************************************************************)
\* Height of the structuring element np.full((5, 1), 1).
MorphHeight == 5

Mask(r) == [row |-> r.row, c0 |-> r.c0, c1 |-> r.c1, h |-> r.h]

\* binarize: the mask of the runs dark enough to be ink.
Binarize(image) ==
    LET kept == SelectSeq(image, LAMBDA r : r.dark)
    IN  [i \in 1..Len(kept) |-> Mask(kept[i])]

\* binarized ^ dilation(erosion(binarized)): the ink thinner than the
\* structuring element, i.e. what the vertical opening removes.
ThinInk(binary) == SelectSeq(binary, LAMBDA r : r.h < MorphHeight)

\* vertical_runs: <<staff_space_height, staff_line_height>>, the modes of
\* the white and of the black vertical run lengths; zero on a blank page.
VerticalRuns(binary) ==
    LET Below(i) == {j \in 1..Len(binary) : binary[j].row > binary[i].row}
        Lower(i) == CHOOSE j \in Below(i) :
                      \A k \in Below(i) : binary[j].row <= binary[k].row
        idx == SelectSeq([i \in 1..Len(binary) |-> i],
                         LAMBDA i : Below(i) # {})
        white == [n \in 1..Len(idx) |->
                    binary[Lower(idx[n])].row - binary[idx[n]].row
                      - binary[idx[n]].h]
        black == [i \in 1..Len(binary) |-> binary[i].h]
    IN  <<Mode(white), Mode(black)>>

\* calculate_horizontal_runs: runs shorter than minLength are suppressed.
CalculateHorizontalRuns(staffs, minLength) ==
    SelectSeq(staffs, LAMBDA r : r.c1 - r.c0 + 1 >= minLength)

\* ImageData(): no field filled in yet.
NewImageData ==
    [image |-> <<>>, height |-> 0, staff_space_height |-> 0,
     staff_line_height |-> 0, horizontal_runs_img |-> <<>>]

\* Lines 86-87: image_data = ImageData(); image_data.image = img / 255.
WithImage(image) == [NewImageData EXCEPT !.image = image]

\* Lines 88-97: the remaining fields of the ImageData d are filled in from
\* its image.
BasicImageData(d, s) ==
    LET binary == Binarize(d.image)
        staffs == ThinInk(binary)
        runs == VerticalRuns(binary)
    IN  [d EXCEPT
           !.staff_space_height = runs[1],
           !.staff_line_height = runs[2],
           !.horizontal_runs_img = CalculateHorizontalRuns(staffs, s.minLength)]

(***************************************************************************)
(* The stages detect_staff_lines calls.  Their bodies live in              *)
(* lineDetector.py and preprocessingUtil.py, outside the two source files; *)
(* they are modelled from sections 4.2-4.9 of the specification.           *)
(***************************************************************************)
\* extract_connected_components: one component per foreground run, as its
\* sample points.
ExtractConnectedComponents(img) ==
    [i \in 1..Len(img) |->
        IF img[i].c0 = img[i].c1
        THEN <<<<img[i].row, img[i].c0>>>>
        ELSE <<<<img[i].row, img[i].c0>>, <<img[i].row, img[i].c1>>>>]

RECURSIVE MergeAdjacent(_)
\* Components on the same row whose columns touch within one pixel become one.
MergeAdjacent(ccs) ==
    IF Len(ccs) < 2 THEN ccs
    ELSE LET a == ccs[1]
             b == ccs[2]
         IN  IF /\ Row(LastPoint(a)) = Row(FirstPoint(b))
                /\ Col(FirstPoint(b)) - Col(LastPoint(a)) \in 0..1
             THEN MergeAdjacent(<<<<FirstPoint(a), LastPoint(b)>>>>
                                  \o SubSeq(ccs, 3, Len(ccs)))
             ELSE <<a>> \o MergeAdjacent(Tail(ccs))

\* normalize_connected_components: degenerate components are discarded,
\* column-adjacent ones on a row are merged.
NormalizeConnectedComponents(cc_list) ==
    MergeAdjacent(SelectSeq(cc_list, LAMBDA c : Len(c) > 1))

RECURSIVE SortedByKey(_, _)
\* Stable insertion sort of the lines (or components) s by the key
\* Row (k = 1) or Col (k = 2) of their first point.
SortedByKey(s, k) ==
    IF s = <<>> THEN <<>>
    ELSE LET rest == SortedByKey(SubSeq(s, 1, Len(s) - 1), k)
             x == s[Len(s)]
             n == Cardinality({i \in 1..Len(rest) :
                                  FirstPoint(rest[i])[k] <= FirstPoint(x)[k]})
         IN  SubSeq(rest, 1, n) \o <<x>> \o SubSeq(rest, n + 1, Len(rest))

RECURSIVE LinkComponents(_, _, _, _)
\* The open-line list after the components ccs have been attached in turn.
LinkComponents(ccs, lines, slh, ssh) ==
    IF ccs = <<>> THEN lines
    ELSE LET c == Head(ccs)
             Dist(i) == Abs(Row(FirstPoint(c)) - Row(LastPoint(lines[i])))
             Gap(i) == Col(FirstPoint(c)) - Col(LastPoint(lines[i]))
             eligible == {i \in 1..Len(lines) :
                             Dist(i) <= slh /\ Gap(i) > 0 /\ Gap(i) <= ssh}
             Better(i, j) == \/ Dist(i) < Dist(j)
                             \/ Dist(i) = Dist(j) /\ Gap(i) < Gap(j)
                             \/ Dist(i) = Dist(j) /\ Gap(i) = Gap(j) /\ i <= j
             best == CHOOSE i \in eligible : \A j \in eligible : Better(i, j)
         IN  IF eligible = {}
             THEN LinkComponents(Tail(ccs), Append(lines, c), slh, ssh)
             ELSE LinkComponents(Tail(ccs),
                                 [lines EXCEPT ![best] = @ \o c], slh, ssh)

\* connect_connected_components_to_line: components in column order, each
\* extending the closest open line within staff_line_height rows and a gap
\* of staff_space_height columns, else opening a new line.
ConnectConnectedComponentsToLine(cc_list, staff_line_height, staff_space_height) ==
    LinkComponents(SortedByKey(cc_list, 2), <<>>,
                   staff_line_height, staff_space_height)

\* prune_small_lines: the lines whose span reaches a floor derived from
\* staff_space_height.  The specification leaves the floor open, so the
\* operator gives every result some floor produces.
PruneSmallLines(line_list, staff_space_height) ==
    LET floors == {0} \cup {Span(line_list[i]) + 1 : i \in DOMAIN line_list}
    IN  {SelectSeq(line_list, LAMBDA l : Span(l) >= f) : f \in floors}

\* Whether line b follows line a at one staff space, within tolerance.
SpacingOk(a, b, staff_space_height) ==
    2 * Abs(Row(FirstPoint(b)) - Row(FirstPoint(a)) - staff_space_height)
        <= staff_space_height

RECURSIVE GroupLength(_, _, _)
\* How many leading lines of the row-sorted lines form one consistently
\* spaced group of at most n lines.
GroupLength(lines, n, ssh) ==
    IF lines = <<>> THEN 0
    ELSE IF Len(lines) < 2 \/ n < 2 THEN 1
    ELSE IF SpacingOk(lines[1], lines[2], ssh)
         THEN 1 + GroupLength(Tail(lines), n - 1, ssh)
         ELSE 1

RECURSIVE GroupLines(_, _, _)
GroupLines(lines, n, ssh) ==
    IF lines = <<>> THEN <<>>
    ELSE LET g == GroupLength(lines, n, ssh)
             rest == GroupLines(SubSeq(lines, g + 1, Len(lines)), n, ssh)
         IN  IF g = n THEN <<SubSeq(lines, 1, g)>> \o rest ELSE rest

\* organize_lines_in_systems: greedy grouping, top to bottom, of numLine
\* lines one staff space apart; lines of an incomplete group are dropped.
OrganizeLinesInSystems(line_list, staff_space_height, staff_line_height, numLine) ==
    GroupLines(SortedByKey(line_list, 1), numLine, staff_space_height)

\* Share (in percent) of the columns under line l that are foreground in
\* the run-length image.
LineIntensity(l, img) ==
    LET rows == {Row(l[i]) : i \in DOMAIN l}
        under == {i \in DOMAIN img :
                     /\ img[i].row \in rows
                     /\ img[i].c0 >= Col(FirstPoint(l))
                     /\ img[i].c1 <= Col(LastPoint(l))}
        RECURSIVE Sum(_)
        Sum(S) == IF S = {} THEN 0
                  ELSE LET i == CHOOSE j \in S : TRUE
                       IN  img[i].c1 - img[i].c0 + 1 + Sum(S \ {i})
    IN  (100 * Sum(under)) \div (Span(l) + 1)

\* Intensity of a system: that of its weakest line.
SystemIntensity(system, img) ==
    LET v == {LineIntensity(system[i], img) : i \in DOMAIN system}
    IN  IF v = {} THEN 0 ELSE CHOOSE x \in v : \A y \in v : x <= y

\* prune_lines_in_system_with_lowest_intensity: the systems whose
\* intensity reaches a threshold relative to the page.  The threshold is
\* left open, so the operator gives every result some threshold produces.
PruneLinesInSystemWithLowestIntensity(staff_list, img) ==
    LET ts == {0} \cup {SystemIntensity(staff_list[i], img) + 1 :
                            i \in DOMAIN staff_list}
    IN  {SelectSeq(staff_list, LAMBDA sy : SystemIntensity(sy, img) >= t) :
            t \in ts}

\* One line stretched to the columns left..right of its system.
ExtendLine(l, left, right) ==
    (IF Col(FirstPoint(l)) > left
     THEN <<<<Row(FirstPoint(l)), left>>>> ELSE <<>>)
    \o l \o
    (IF Col(LastPoint(l)) < right
     THEN <<<<Row(LastPoint(l)), right>>>> ELSE <<>>)

\* normalize_lines_in_system: every line of a system is extended to the
\* leftmost and rightmost column found in the system.
NormalizeLinesInSystem(staff_list, staff_space_height, img) ==
    [k \in DOMAIN staff_list |->
        LET sy == staff_list[k]
            firsts == {Col(FirstPoint(sy[i])) : i \in DOMAIN sy}
            lasts == {Col(LastPoint(sy[i])) : i \in DOMAIN sy}
            left == CHOOSE x \in firsts : \A y \in firsts : x <= y
            right == CHOOSE x \in lasts : \A y \in lasts : x >= y
        IN  [i \in DOMAIN sy |-> ExtendLine(sy[i], left, right)]]

\* One line with the segment of the binarized image that the run-length
\* filter cut off its left end put back.
RecoverLine(l, staff_line_height, binary) ==
    LET near == {i \in DOMAIN binary :
                    /\ Abs(binary[i].row - Row(FirstPoint(l)))
                          <= staff_line_height
                    /\ binary[i].c1 < Col(FirstPoint(l))
                    /\ Col(FirstPoint(l)) - binary[i].c1
                          <= 2 * staff_line_height}
    IN  IF near = {} THEN l
        ELSE LET i == CHOOSE j \in near :
                         \A k \in near : binary[j].c0 <= binary[k].c0
             IN  <<<<binary[i].row, binary[i].c0>>>> \o l

\* postprocess_staff_systems: the boundary of every line is re-examined
\* in the binarized source image and lost segments are recovered.
PostprocessStaffSystems(staff_list, staff_line_height, binary) ==
    [k \in DOMAIN staff_list |->
        [i \in DOMAIN staff_list[k] |->
            RecoverLine(staff_list[k][i], staff_line_height, binary)]]

\* Low-pass filter over the rows of one line; the columns are kept.
SmoothLine(l) ==
    [i \in DOMAIN l |->
        IF i = 1 \/ i = Len(l) THEN l[i]
        ELSE <<(Row(l[i - 1]) + Row(l[i]) + Row(l[i + 1])) \div 3, Col(l[i])>>]

\* smooth_lines(staff_list, value).
SmoothLines(staff_list, value) ==
    [k \in DOMAIN staff_list |->
        [i \in DOMAIN staff_list[k] |-> SmoothLine(staff_list[k][i])]]

\* smooth_lines_advanced(staff_list, value): the stronger variant.
SmoothLinesAdvanced(staff_list, value) ==
    [k \in DOMAIN staff_list |->
        [i \in DOMAIN staff_list[k] |->
            SmoothLine(SmoothLine(staff_list[k][i]))]]

\* One line reduced to its end points and the points further than
\* distance from the chord between them.
FitLine(l, distance) ==
    LET a == FirstPoint(l)
        b == LastPoint(l)
        Dev(p) == Abs((Row(p) - Row(a)) * (Col(b) - Col(a))
                      - (Row(b) - Row(a)) * (Col(p) - Col(a)))
        keep == {i \in DOMAIN l :
                    \/ i = 1
                    \/ i = Len(l)
                    \/ Dev(l[i]) > distance * (Col(b) - Col(a))}
    IN  [n \in 1..Cardinality(keep) |->
            l[CHOOSE i \in keep : Cardinality({j \in keep : j <= i}) = n]]

\* line_fitting(staff_list, distance).
LineFitting(staff_list, distance) ==
    [k \in DOMAIN staff_list |->
        [i \in DOMAIN staff_list[k] |-> FitLine(staff_list[k][i], distance)]]

(***************************************************************************)
(* detect_staff_lines, lines 112-171: the code of the pipeline itself.     *)
(***************************************************************************)
\* The pixel floor of line 122.
MinSpan == 50

\* Mutant of line 122: the comparison written >= instead of >.
RemoveShortLinesInclusive(line_list) ==
    SelectSeq(line_list, LAMBDA l : Span(l) >= MinSpan)

\* Line 122: [l for l in line_list if l[-1][1] - l[0][1] > 50].
RemoveShortLines(line_list) ==
    SelectSeq(line_list, LAMBDA l : Span(l) > MinSpan)

\* Mutant of line 136: [line_list], the whole list wrapped as one system.
SingletonsWhole(line_list) == <<line_list>>

\* Line 136: [[x] for x in line_list].
Singletons(line_list) == [i \in DOMAIN line_list |-> <<line_list[i]>>]

\* Mutant of line 149: the comparison written >= instead of >.
FitGateInclusive(s) ==
    IF s.line_fit_distance >= 0 THEN "line_fitting" ELSE "return"

\* Line 149: the gate of line_fitting, then the return.
FitGate(s) == IF s.line_fit_distance > 0 THEN "line_fitting" ELSE "return"

\* Mutant of line 146: the second test left out, so that the advanced
\* smoother runs whenever smoothing is on.
AdvancedGateAlways(s) ==
    IF s.smooth_lines # 0 THEN "smooth_lines_advanced" ELSE FitGate(s)

\* Line 146, reached when line 144 chose the low-pass smoother or nothing.
AdvancedGate(s) ==
    IF s.smooth_lines = 2 THEN "smooth_lines_advanced" ELSE FitGate(s)

\* Lines 143-144.
SmoothGate(s) ==
    IF s.smooth_lines # 0
    THEN IF s.smooth_lines = 1 THEN "smooth_lines" ELSE AdvancedGate(s)
    ELSE FitGate(s)

\* Mutant of lines 140-141: the re-run of the normalizer left out.
RenormalizeGateSkipped(s) == SmoothGate(s)

\* Line 140: the normalizer is re-run after post-processing.
RenormalizeGate(s) ==
    IF s.numLine > 1 /\ s.lineExtension THEN "renormalize" ELSE SmoothGate(s)

\* Mutant of lines 138-141: the test of line 140 dedented out of the
\* block of line 138, so that it also runs without post-processing.
PostProcessGateDedented(s) ==
    IF s.post_process THEN "postprocess_staff_systems" ELSE RenormalizeGate(s)

\* Line 138.
PostProcessGate(s) ==
    IF s.post_process THEN "postprocess_staff_systems" ELSE SmoothGate(s)

\* Line 132.
NormalizeGate(s) ==
    IF s.lineExtension THEN "normalize_lines_in_system" ELSE PostProcessGate(s)

\* Mutant of line 129: the bound off by one.
SystemGateOffByOne(s) ==
    IF s.numLine > 2 THEN "organize_lines_in_systems" ELSE "singletons"

\* Mutant of line 129: the comparison written >= instead of >.
SystemGateAtLeastOne(s) ==
    IF s.numLine >= 1 THEN "organize_lines_in_systems" ELSE "singletons"

\* Lines 129 and 135.
SystemGate(s) ==
    IF s.numLine > 1 THEN "organize_lines_in_systems" ELSE "singletons"

VARIABLES
    settings,            \* self.settings
    image_data,          \* the ImageData of the page being processed
    pc,                  \* the statement detect_basic / detect_staff_lines is at
    img,                 \* locals of detect_staff_lines
    staff_line_height,
    staff_space_height,
    cc_list,
    line_list,
    staff_list,
    calls,               \* history: the stage calls of this run, in order
    result,              \* the value detect_staff_lines returned
    yielded,             \* history: an earlier page has been yielded
    images,              \* the argument of detect
    d_pc,                \* the statement detect is at
    next_task,           \* pool: the next image to hand to a worker
    running,             \* pool: the tasks the workers are computing
    finished,            \* pool: task index -> ImageData, the results posted
    finish_order,        \* history: the tasks in the order they finished
    taken,               \* pool: the results the imap iterator has given out
    data,                \* the list data of detect_advanced
    dataset,             \* PCPredictor.predict: the loaded data set
    predicted,           \* PCPredictor.predict: how many it has yielded
    pred,                \* the prediction yielded and not yet consumed
    index,               \* the i of enumerate in detect_advanced
    results              \* what detect has yielded, in order

pvars == <<image_data, pc, img, staff_line_height, staff_space_height,
           cc_list, line_list, staff_list, calls, result, yielded>>

dvars == <<images, d_pc, next_task, running, finished, finish_order, taken,
           data, dataset, predicted, pred, index, results>>

vars == <<settings, pvars, dvars>>

Call(stage, arg, param, out) ==
    [stage |-> stage, arg |-> arg, param |-> param, out |-> out]

Init ==
    /\ settings \in SettingsSet
    /\ image_data = NewImageData
    /\ pc = "detect_basic"
    /\ img = <<>>
    /\ staff_line_height = 0
    /\ staff_space_height = 0
    /\ cc_list = <<>>
    /\ line_list = <<>>
    /\ staff_list = <<>>
    /\ calls = <<>>
    /\ result = <<>>
    /\ yielded = FALSE
    /\ images = <<>>
    /\ d_pc = "idle"
    /\ next_task = 1
    /\ running = {}
    /\ finished = <<>>
    /\ finish_order = <<>>
    /\ taken = {}
    /\ data = <<>>
    /\ dataset = <<>>
    /\ predicted = 0
    /\ pred = <<>>
    /\ index = 0
    /\ results = <<>>

\* Lines 85-87: the next image of the loop gets a fresh ImageData.  The
\* frame of the previous call of detect_staff_lines is gone.
DetectBasicNext ==
    /\ pc \in {"detect_basic", "yield"}
    /\ \E image \in Pages : image_data' = WithImage(image)
    /\ yielded' = (pc = "yield")
    /\ pc' = "prepare"
    /\ img' = <<>>
    /\ staff_line_height' = 0
    /\ staff_space_height' = 0
    /\ cc_list' = <<>>
    /\ line_list' = <<>>
    /\ staff_list' = <<>>
    /\ calls' = <<>>
    /\ result' = <<>>
    /\ UNCHANGED <<settings, dvars>>

\* Lines 88-98: the fields are filled in and detect_staff_lines is called.
DetectBasicPrepare ==
    /\ pc = "prepare"
    /\ image_data' = BasicImageData(image_data, settings)
    /\ pc' = "load"
    /\ UNCHANGED <<settings, img, staff_line_height, staff_space_height,
                   cc_list, line_list, staff_list, calls, result, yielded, dvars>>

\* Lines 113-115.
LoadLocals ==
    /\ pc = "load"
    /\ img' = image_data.horizontal_runs_img
    /\ staff_line_height' = image_data.staff_line_height
    /\ staff_space_height' = image_data.staff_space_height
    /\ pc' = "extract_connected_components"
    /\ UNCHANGED <<settings, image_data, cc_list, line_list, staff_list,
                   calls, result, yielded, dvars>>

\* Line 117.
ExtractCC ==
    /\ pc = "extract_connected_components"
    /\ cc_list' = ExtractConnectedComponents(img)
    /\ calls' = Append(calls, Call(pc, img, "none", cc_list'))
    /\ pc' = "normalize_connected_components"
    /\ UNCHANGED <<settings, image_data, img, staff_line_height,
                   staff_space_height, line_list, staff_list, result,
                   yielded, dvars>>

\* Line 118.
NormalizeCC ==
    /\ pc = "normalize_connected_components"
    /\ cc_list' = NormalizeConnectedComponents(cc_list)
    /\ calls' = Append(calls, Call(pc, cc_list, "none", cc_list'))
    /\ pc' = "connect_connected_components_to_line"
    /\ UNCHANGED <<settings, image_data, img, staff_line_height,
                   staff_space_height, line_list, staff_list, result,
                   yielded, dvars>>

\* Line 119.
ConnectCC ==
    /\ pc = "connect_connected_components_to_line"
    /\ line_list' = ConnectConnectedComponentsToLine(
                        cc_list, staff_line_height, staff_space_height)
    /\ calls' = Append(calls, Call(pc, cc_list, "none", line_list'))
    /\ pc' = "length_filter"
    /\ UNCHANGED <<settings, image_data, img, staff_line_height,
                   staff_space_height, cc_list, staff_list, result,
                   yielded, dvars>>

\* Line 122.  Indexing an empty line raises IndexError.
LengthFilter ==
    /\ pc = "length_filter"
    /\ IF \E i \in DOMAIN line_list : line_list[i] = <<>>
       THEN pc' = "raised" /\ UNCHANGED <<line_list, calls>>
       ELSE /\ line_list' = RemoveShortLines(line_list)
            /\ calls' = Append(calls, Call(pc, line_list, MinSpan, line_list'))
            /\ pc' = "prune_small_lines"
    /\ UNCHANGED <<settings, image_data, img, staff_line_height,
                   staff_space_height, cc_list, staff_list, result,
                   yielded, dvars>>

\* Lines 127-129 and 135: prune_small_lines, then the branch on numLine.
PruneSmall ==
    /\ pc = "prune_small_lines"
    /\ \E kept \in PruneSmallLines(line_list, staff_space_height) :
          /\ line_list' = kept
          /\ calls' = Append(calls, Call(pc, line_list, "none", kept))
    /\ pc' = SystemGate(settings)
    /\ UNCHANGED <<settings, image_data, img, staff_line_height,
                   staff_space_height, cc_list, staff_list, result,
                   yielded, dvars>>

\* Line 130.
Organize ==
    /\ pc = "organize_lines_in_systems"
    /\ staff_list' = OrganizeLinesInSystems(
                         line_list, staff_space_height, staff_line_height,
                         settings.numLine)
    /\ calls' = Append(calls, Call(pc, line_list, settings.numLine, staff_list'))
    /\ pc' = "prune_lines_in_system_with_lowest_intensity"
    /\ UNCHANGED <<settings, image_data, img, staff_line_height,
                   staff_space_height, cc_list, line_list, result,
                   yielded, dvars>>

\* Lines 131-132.
PruneSystems ==
    /\ pc = "prune_lines_in_system_with_lowest_intensity"
    /\ \E kept \in PruneLinesInSystemWithLowestIntensity(staff_list, img) :
          /\ staff_list' = kept
          /\ calls' = Append(calls, Call(pc, staff_list, "none", kept))
    /\ pc' = NormalizeGate(settings)
    /\ UNCHANGED <<settings, image_data, img, staff_line_height,
                   staff_space_height, cc_list, line_list, result,
                   yielded, dvars>>

\* Line 133, then line 138.
Normalize ==
    /\ pc = "normalize_lines_in_system"
    /\ staff_list' = NormalizeLinesInSystem(staff_list, staff_space_height, img)
    /\ calls' = Append(calls, Call("normalize_lines_in_system", staff_list,
                                   staff_space_height, staff_list'))
    /\ pc' = PostProcessGate(settings)
    /\ UNCHANGED <<settings, image_data, img, staff_line_height,
                   staff_space_height, cc_list, line_list, result,
                   yielded, dvars>>

\* Line 136, then line 138.
WrapSingletons ==
    /\ pc = "singletons"
    /\ staff_list' = Singletons(line_list)
    /\ calls' = Append(calls, Call(pc, line_list, "none", staff_list'))
    /\ pc' = PostProcessGate(settings)
    /\ UNCHANGED <<settings, image_data, img, staff_line_height,
                   staff_space_height, cc_list, line_list, result,
                   yielded, dvars>>

\* Mutant of line 139: the binarized image is kept in the ImageData.
PostprocessCaching ==
    /\ pc = "postprocess_staff_systems"
    /\ image_data' = [image_data EXCEPT !.image = Binarize(image_data.image)]
    /\ staff_list' = PostprocessStaffSystems(
                         staff_list, staff_line_height, image_data'.image)
    /\ calls' = Append(calls, Call(pc, staff_list, staff_line_height,
                                   staff_list'))
    /\ pc' = RenormalizeGate(settings)
    /\ UNCHANGED <<settings, img, staff_line_height, staff_space_height,
                   cc_list, line_list, result, yielded, dvars>>

\* Lines 139-140.
Postprocess ==
    /\ pc = "postprocess_staff_systems"
    /\ staff_list' = PostprocessStaffSystems(
                         staff_list, staff_line_height,
                         Binarize(image_data.image))
    /\ calls' = Append(calls, Call(pc, staff_list, staff_line_height,
                                   staff_list'))
    /\ pc' = RenormalizeGate(settings)
    /\ UNCHANGED <<settings, image_data, img, staff_line_height,
                   staff_space_height, cc_list, line_list, result,
                   yielded, dvars>>

\* Line 141, then line 143.
Renormalize ==
    /\ pc = "renormalize"
    /\ staff_list' = NormalizeLinesInSystem(staff_list, staff_space_height, img)
    /\ calls' = Append(calls, Call("normalize_lines_in_system", staff_list,
                                   staff_space_height, staff_list'))
    /\ pc' = SmoothGate(settings)
    /\ UNCHANGED <<settings, image_data, img, staff_line_height,
                   staff_space_height, cc_list, line_list, result,
                   yielded, dvars>>

\* Lines 145-146.
SmoothLowpass ==
    /\ pc = "smooth_lines"
    /\ staff_list' = SmoothLines(staff_list, settings.smooth_value_lowpass)
    /\ calls' = Append(calls, Call(pc, staff_list,
                                   settings.smooth_value_lowpass, staff_list'))
    /\ pc' = AdvancedGate(settings)
    /\ UNCHANGED <<settings, image_data, img, staff_line_height,
                   staff_space_height, cc_list, line_list, result,
                   yielded, dvars>>

\* Line 147, then line 149.
SmoothAdvanced ==
    /\ pc = "smooth_lines_advanced"
    /\ staff_list' = SmoothLinesAdvanced(staff_list, settings.smooth_value_adv)
    /\ calls' = Append(calls, Call(pc, staff_list, settings.smooth_value_adv,
                                   staff_list'))
    /\ pc' = FitGate(settings)
    /\ UNCHANGED <<settings, image_data, img, staff_line_height,
                   staff_space_height, cc_list, line_list, result,
                   yielded, dvars>>

\* Line 150.
FitLines ==
    /\ pc = "line_fitting"
    /\ staff_list' = LineFitting(staff_list, settings.line_fit_distance)
    /\ calls' = Append(calls, Call(pc, staff_list, settings.line_fit_distance,
                                   staff_list'))
    /\ pc' = "return"
    /\ UNCHANGED <<settings, image_data, img, staff_line_height,
                   staff_space_height, cc_list, line_list, result,
                   yielded, dvars>>

\* Lines 153-171 and the yield of line 98.  The debug plot only reads.
Return ==
    /\ pc = "return"
    /\ result' = staff_list
    /\ pc' = "yield"
    /\ UNCHANGED <<settings, image_data, img, staff_line_height,
                   staff_space_height, cc_list, line_list, staff_list, calls,
                   yielded, dvars>>

Next ==
    \/ DetectBasicNext
    \/ DetectBasicPrepare
    \/ LoadLocals
    \/ ExtractCC
    \/ NormalizeCC
    \/ ConnectCC
    \/ LengthFilter
    \/ PruneSmall
    \/ Organize
    \/ PruneSystems
    \/ Normalize
    \/ WrapSingletons
    \/ Postprocess
    \/ Renormalize
    \/ SmoothLowpass
    \/ SmoothAdvanced
    \/ FitLines
    \/ Return

Spec == Init /\ [][Next]_vars

(***************************************************************************)
(* detect, detect_basic and detect_advanced over a batch of images         *)
(* (lines 79-110) and PCPredictor.predict (predictor.py, lines 15-22).     *)
(* detect_staff_lines is not stepped through here: what detect yields for  *)
(* an image is represented by the ImageData handed to detect_staff_lines.  *)
(***************************************************************************)
\* The images a batch is drawn from: the first NumImages pages.
PageSeq == <<PageBroken, PageTwo, PageShort, PageNoise, PageFar,
             PageFiftyOne, PageFifty, PageBlank, PageClipped>>

BatchSet ==
    UNION {{b \in [1..n -> 1..NumImages] :
               \A i, j \in 1..n : i # j => b[i] # b[j]} : n \in 0..NumImages}

\* create_data(image, line_space_height), run by a worker of the pool.
CreateData(image, line_space_height) ==
    [NewImageData EXCEPT !.image = image, !.height = line_space_height]

\* Mutant of line 104: imap_unordered, results in the order they finish.
ImapReadyUnordered(done, given) == done \ given

\* Line 104, p.imap: the tasks whose result the iterator may give out
\* next.  imap keeps the order of the tasks: only the one after the last
\* given out, once its worker has posted it.
ImapReady(done, given) ==
    {k \in done \ given : k = Cardinality(given) + 1}

\* predictor.py, lines 16-19: one SingleData per ImageData, in order.
LoadData(imgs) ==
    [k \in DOMAIN imgs |->
        [binary |-> imgs[k].image, image |-> imgs[k].image,
         line_height_px |-> imgs[k].height]]

\* The mask the pixel classifier gives for one SingleData (resized to the
\* original shape, line 21): the staff-line pixels of its image.
Predict(single) == ThinInk(Binarize(single.image))

\* Lines 107-109: data[i] gets its remaining fields from the prediction.
AdvancedImageData(d, mask, s) ==
    LET runs == VerticalRuns(Binarize(d.image))
    IN  [d EXCEPT
           !.staff_space_height = runs[1],
           !.staff_line_height = runs[2],
           !.horizontal_runs_img = CalculateHorizontalRuns(mask, s.minLength)]

InitDetect ==
    /\ settings \in BatchSettingsSet
    /\ image_data = NewImageData
    /\ pc = "idle"
    /\ img = <<>>
    /\ staff_line_height = 0
    /\ staff_space_height = 0
    /\ cc_list = <<>>
    /\ line_list = <<>>
    /\ staff_list = <<>>
    /\ calls = <<>>
    /\ result = <<>>
    /\ yielded = FALSE
    /\ \E b \in BatchSet : images = [i \in DOMAIN b |-> PageSeq[b[i]]]
    /\ d_pc = "detect"
    /\ next_task = 1
    /\ running = {}
    /\ finished = <<>>
    /\ finish_order = <<>>
    /\ taken = {}
    /\ data = <<>>
    /\ dataset = <<>>
    /\ predicted = 0
    /\ pred = <<>>
    /\ index = 0
    /\ results = <<>>

\* Lines 79-82.
Detect ==
    /\ d_pc = "detect"
    /\ d_pc' = IF ~settings.model THEN "detect_basic" ELSE "pool"
    /\ UNCHANGED <<settings, pvars, images, next_task, running, finished,
                   finish_order, taken, data, dataset, predicted, pred, index,
                   results>>

\* Lines 85-98: one iteration of the loop of detect_basic.
BasicIteration ==
    /\ d_pc = "detect_basic"
    /\ Len(results) < Len(images)
    /\ results' = Append(results,
                         BasicImageData(WithImage(images[Len(results) + 1]),
                                        settings))
    /\ UNCHANGED <<settings, pvars, images, d_pc, next_task, running,
                   finished, finish_order, taken, data, dataset, predicted,
                   pred, index>>

\* The loop of detect_basic is exhausted.
BasicEnd ==
    /\ d_pc = "detect_basic"
    /\ Len(results) = Len(images)
    /\ d_pc' = "done"
    /\ UNCHANGED <<settings, pvars, images, next_task, running, finished,
                   finish_order, taken, data, dataset, predicted, pred, index,
                   results>>

\* Line 103-104: an idle worker of the pool takes the next image.
PoolDispatch ==
    /\ d_pc = "pool"
    /\ next_task <= Len(images)
    /\ Cardinality(running) < settings.processes
    /\ running' = running \cup {next_task}
    /\ next_task' = next_task + 1
    /\ UNCHANGED <<settings, pvars, images, d_pc, finished, finish_order,
                   taken, data, dataset, predicted, pred, index, results>>

\* A worker finishes create_data for its image and posts the result.
PoolFinish ==
    /\ d_pc = "pool"
    /\ \E k \in running :
          /\ running' = running \ {k}
          /\ finished' = [t \in DOMAIN finished \cup {k} |->
                             IF t = k
                             THEN CreateData(images[k], settings.lineSpaceHeight)
                             ELSE finished[t]]
          /\ finish_order' = Append(finish_order, k)
    /\ UNCHANGED <<settings, pvars, images, d_pc, next_task, taken, data,
                   dataset, predicted, pred, index, results>>

\* Line 104: the list comprehension takes the next value of the iterator.
PoolCollect ==
    /\ d_pc = "pool"
    /\ \E k \in ImapReady(DOMAIN finished, taken) :
          /\ data' = Append(data, finished[k])
          /\ taken' = taken \cup {k}
    /\ UNCHANGED <<settings, pvars, images, d_pc, next_task, running,
                   finished, finish_order, dataset, predicted, pred, index,
                   results>>

\* Lines 104-106: the iterator is exhausted, the pool is left, and
\* predict(data) loads its data set (predictor.py, lines 16-19).
PoolExit ==
    /\ d_pc = "pool"
    /\ Cardinality(taken) = Len(images)
    /\ dataset' = LoadData(data)
    /\ d_pc' = "predict"
    /\ UNCHANGED <<settings, pvars, images, next_task, running, finished,
                   finish_order, taken, data, predicted, pred, index, results>>

\* predictor.py, lines 20-22: the generator yields its next prediction.
PredictorYield ==
    /\ d_pc = "predict"
    /\ pred = <<>>
    /\ predicted < Len(dataset)
    /\ pred' = <<Predict(dataset[predicted + 1])>>
    /\ predicted' = predicted + 1
    /\ UNCHANGED <<settings, pvars, images, d_pc, next_task, running,
                   finished, finish_order, taken, data, dataset, index,
                   results>>

\* Lines 106-110: the body of the loop for (i, pred).
AdvancedIteration ==
    /\ d_pc = "predict"
    /\ pred # <<>>
    /\ data' = [data EXCEPT ![index + 1] =
                    AdvancedImageData(data[index + 1], pred[1], settings)]
    /\ results' = Append(results, data'[index + 1])
    /\ index' = index + 1
    /\ pred' = <<>>
    /\ UNCHANGED <<settings, pvars, images, d_pc, next_task, running,
                   finished, finish_order, taken, dataset, predicted>>

\* The generator of predict is exhausted.
AdvancedEnd ==
    /\ d_pc = "predict"
    /\ pred = <<>>
    /\ predicted = Len(dataset)
    /\ d_pc' = "done"
    /\ UNCHANGED <<settings, pvars, images, next_task, running, finished,
                   finish_order, taken, data, dataset, predicted, pred, index,
                   results>>

NextDetect ==
    \/ Detect
    \/ BasicIteration
    \/ BasicEnd
    \/ PoolDispatch
    \/ PoolFinish
    \/ PoolCollect
    \/ PoolExit
    \/ PredictorYield
    \/ AdvancedIteration
    \/ AdvancedEnd

SpecDetect == InitDetect /\ [][NextDetect]_vars

(***************************************************************************)
(* Properties.                                                             *)
(***************************************************************************)
Returned == pc = "yield"

StageAt(i) == calls[i].stage

CallsOf(stage) == {i \in DOMAIN calls : calls[i].stage = stage}

Ran(stage) == CallsOf(stage) # {}

C2_SystemSize ==
    (Returned /\ settings.numLine > 1) =>
        \A k \in DOMAIN result : Len(result[k]) = settings.numLine

\* A run with every optional stage enabled that returned a system.
C2_Witness ==
    /\ Returned
    /\ settings.numLine > 1
    /\ settings.lineExtension
    /\ settings.post_process
    /\ settings.smooth_lines \in {1, 2}
    /\ settings.line_fit_distance > 0
    /\ result # <<>>

\* C3: when the component list is empty, no stage raises, every later
\* stage receives and produces an empty list, and the returned system
\* list is empty, whatever the settings.
C3_BlankPage ==
    (calls # <<>> /\ calls[1].out = <<>>) =>
        /\ pc # "raised"
        /\ \A i \in 2..Len(calls) :
              calls[i].arg = <<>> /\ calls[i].out = <<>>
        /\ Returned => result = <<>>

\* A run on a page without components through all twelve stage calls.
C3_Witness ==
    /\ Returned
    /\ calls # <<>>
    /\ calls[1].out = <<>>
    /\ Len(calls) = 12

\* The place of a stage in the order of the pipeline; the wrapping of
\* line 136 stands where the three system stages stand.
StageRank(stage) ==
    CASE stage = "extract_connected_components" -> 1
      [] stage = "normalize_connected_components" -> 2
      [] stage = "connect_connected_components_to_line" -> 3
      [] stage = "length_filter" -> 4
      [] stage = "prune_small_lines" -> 5
      [] stage = "organize_lines_in_systems" -> 6
      [] stage = "singletons" -> 6
      [] stage = "prune_lines_in_system_with_lowest_intensity" -> 7
      [] stage = "normalize_lines_in_system" -> 8
      [] stage = "postprocess_staff_systems" -> 9
      [] stage = "smooth_lines" -> 11
      [] stage = "smooth_lines_advanced" -> 11
      [] stage = "line_fitting" -> 12

\* A run of the normalizer after post-processing has the place after it.
RankAt(i) ==
    IF /\ StageAt(i) = "normalize_lines_in_system"
       /\ \E j \in 1..(i - 1) : StageAt(j) = "postprocess_staff_systems"
    THEN 10
    ELSE StageRank(StageAt(i))

\* C4: the stages that execute do so in the fixed order of the pipeline;
\* none runs after a later one or twice, except normalize_lines_in_system,
\* which runs at most twice, the second time right after
\* postprocess_staff_systems.
C4_LinearPipeline ==
    /\ \A i, j \in DOMAIN calls : i < j => RankAt(i) < RankAt(j)
    /\ Cardinality(CallsOf("normalize_lines_in_system")) <= 2
    /\ \A i, j \in CallsOf("normalize_lines_in_system") :
          j < i => StageAt(i - 1) = "postprocess_staff_systems"

\* A run through all twelve stage calls, the normalizer twice.
C4_Witness ==
    /\ Returned
    /\ Len(calls) = 12
    /\ Cardinality(CallsOf("normalize_lines_in_system")) = 2
    /\ result # <<>>

\* The normalizer ran on the output of postprocess_staff_systems.
NormalizedAfterPostprocess ==
    \E i \in DOMAIN calls :
        /\ i < Len(calls)
        /\ StageAt(i) = "postprocess_staff_systems"
        /\ StageAt(i + 1) = "normalize_lines_in_system"
        /\ calls[i + 1].arg = calls[i].out

\* C5 as stated: with post_process and lineExtension the normalizer is
\* re-run on the output of post-processing for every numLine, and with
\* lineExtension the normalizer runs at least once.
C5_Original ==
    Returned =>
        /\ (settings.post_process /\ settings.lineExtension)
              => NormalizedAfterPostprocess
        /\ settings.lineExtension => Ran("normalize_lines_in_system")

\* C5, amended: both statements hold when numLine > 1.
C5_Amended ==
    (Returned /\ settings.numLine > 1) =>
        /\ (settings.post_process /\ settings.lineExtension)
              => NormalizedAfterPostprocess
        /\ settings.lineExtension => Ran("normalize_lines_in_system")

\* A run where the re-run of the normalizer extended a line that
\* post-processing had left shorter than its system.
C5_Witness ==
    /\ Returned
    /\ settings.numLine > 1
    /\ settings.post_process
    /\ settings.lineExtension
    /\ \E i \in CallsOf("normalize_lines_in_system") :
          /\ i > 1
          /\ StageAt(i - 1) = "postprocess_staff_systems"
          /\ calls[i].out # calls[i].arg

\* Line 136 turned the lines prune_small_lines kept into one singleton
\* system each, in order, and that list went on to what follows.
SingletonHandOver ==
    \E i \in CallsOf("singletons") :
        /\ i > 1
        /\ StageAt(i - 1) = "prune_small_lines"
        /\ calls[i].arg = calls[i - 1].out
        /\ Len(calls[i].out) = Len(calls[i].arg)
        /\ \A n \in DOMAIN calls[i].arg :
              calls[i].out[n] = <<calls[i].arg[n]>>
        /\ IF i < Len(calls)
           THEN calls[i + 1].arg = calls[i].out
           ELSE result = calls[i].out

\* C6 as stated: organize_lines_in_systems, the system pruner and the
\* normalizer are each invoked if and only if numLine > 1; with
\* numLine <= 1 the later stages get one singleton system per line.
C6_Original ==
    Returned =>
        /\ Ran("organize_lines_in_systems") <=> settings.numLine > 1
        /\ Ran("prune_lines_in_system_with_lowest_intensity")
              <=> settings.numLine > 1
        /\ Ran("normalize_lines_in_system") <=> settings.numLine > 1
        /\ settings.numLine <= 1 => SingletonHandOver

\* C6, amended: the normalizer is invoked if and only if numLine > 1 and
\* lineExtension is set; the rest as stated.
C6_Amended ==
    Returned =>
        /\ Ran("organize_lines_in_systems") <=> settings.numLine > 1
        /\ Ran("prune_lines_in_system_with_lowest_intensity")
              <=> settings.numLine > 1
        /\ Ran("normalize_lines_in_system")
              <=> (settings.numLine > 1 /\ settings.lineExtension)
        /\ settings.numLine <= 1 => SingletonHandOver

\* A run with numLine <= 1 that wrapped two or more lines.
C6_Witness ==
    /\ Returned
    /\ settings.numLine <= 1
    /\ \E i \in CallsOf("singletons") : Len(calls[i].out) >= 2

\* The system list as it reaches line 143: the output of the last stage
\* before the smoothers.
BeforeSmoothing ==
    LET early == {i \in DOMAIN calls :
                     StageAt(i) \notin {"smooth_lines", "smooth_lines_advanced",
                                        "line_fitting"}}
        last == CHOOSE i \in early : \A j \in early : j <= i
    IN  calls[last].out

\* The system list as it reaches line 149.
AfterSmoothing ==
    IF Ran("line_fitting")
    THEN LET i == CHOOSE j \in CallsOf("line_fitting") : TRUE
         IN  calls[i].arg
    ELSE result

\* C7: smooth_lines = 1 runs only the low-pass smoother, once, with
\* smooth_value_lowpass; 2 runs only the advanced smoother, once, with
\* smooth_value_adv; 0 and any other value run neither and pass the system
\* list through unchanged; the two smoothers never both run.
C7_SmootherChoice ==
    Returned =>
        LET low == CallsOf("smooth_lines")
            adv == CallsOf("smooth_lines_advanced")
        IN  /\ settings.smooth_lines = 1 =>
                  /\ Cardinality(low) = 1
                  /\ adv = {}
                  /\ \A i \in low :
                        /\ calls[i].param = settings.smooth_value_lowpass
                        /\ calls[i].arg = BeforeSmoothing
                        /\ calls[i].out = AfterSmoothing
            /\ settings.smooth_lines = 2 =>
                  /\ Cardinality(adv) = 1
                  /\ low = {}
                  /\ \A i \in adv :
                        /\ calls[i].param = settings.smooth_value_adv
                        /\ calls[i].arg = BeforeSmoothing
                        /\ calls[i].out = AfterSmoothing
            /\ settings.smooth_lines \notin {1, 2} =>
                  /\ low = {}
                  /\ adv = {}
                  /\ AfterSmoothing = BeforeSmoothing
            /\ ~(low # {} /\ adv # {})

\* A run where the advanced smoother changed the rows of a line.
C7_Witness ==
    /\ Returned
    /\ settings.smooth_lines = 2
    /\ \E i \in CallsOf("smooth_lines_advanced") :
          calls[i].out # calls[i].arg

\* C8: line_fitting runs if and only if line_fit_distance > 0; it then
\* runs once, last, on the output of the smoothing stage and with the
\* configured distance, and its result is returned; otherwise the
\* smoothed list is returned as it is.
C8_LineFitting ==
    Returned =>
        LET fit == CallsOf("line_fitting")
            n == Len(calls)
        IN  /\ fit # {} <=> settings.line_fit_distance > 0
            /\ Cardinality(fit) <= 1
            /\ \A i \in fit :
                  /\ i = n
                  /\ calls[i].param = settings.line_fit_distance
                  /\ calls[i].arg = calls[i - 1].out
                  /\ calls[i].out = LineFitting(calls[i - 1].out,
                                                settings.line_fit_distance)
                  /\ result = calls[i].out
            /\ fit = {} => result = calls[n].out

\* A run where line_fitting dropped points of a smoothed line.
C8_Witness ==
    /\ Returned
    /\ \E i \in CallsOf("line_fitting") :
          /\ StageAt(i - 1) \in {"smooth_lines", "smooth_lines_advanced"}
          /\ calls[i].out # calls[i].arg

\* What detect has to yield for an image: the ImageData its path hands to
\* detect_staff_lines, computed from that image alone.
Expected(image) ==
    IF ~settings.model
    THEN BasicImageData(WithImage(image), settings)
    ELSE AdvancedImageData(CreateData(image, settings.lineSpaceHeight),
                           ThinInk(Binarize(image)), settings)

\* C9: detect yields one result per image, in input order, on both
\* paths: data[k] belongs to images[k] and result k is computed from
\* images[k], under every interleaving of the workers.
C9_InputOrder ==
    /\ Len(results) <= Len(images)
    /\ d_pc = "done" => Len(results) = Len(images)
    /\ \A k \in DOMAIN data : data[k].image = images[k]
    /\ \A k \in DOMAIN results : results[k] = Expected(images[k])

\* A finished run of the advanced path whose workers finished out of order.
C9_Witness ==
    /\ d_pc = "done"
    /\ settings.model
    /\ Len(results) >= 2
    /\ finish_order[1] # 1

\* C10: no step of detect_staff_lines assigns to a field of the ImageData
\* or to the settings; the settings stay as they are from page to page.
C10_ReadOnly ==
    [][/\ settings' = settings
       /\ pc \notin {"detect_basic", "prepare", "yield"}
             => image_data' = image_data]_vars

\* A later page of the batch returned, post-processing having read the
\* image of its ImageData.
C10_Witness ==
    /\ Returned
    /\ yielded
    /\ Ran("postprocess_staff_systems")
    /\ result # <<>>
    /\ image_data.horizontal_runs_img # <<>>

=============================================================================
